---- MODULE Spec2Model ----
(***************************************************************************)
(* Model of autogo.py: the repository-reference parser, the rate-aware     *)
(* GitHub client with its permit pool, the build-system detector, the      *)
(* per-record enrichment and the batch driver.                             *)
(*                                                                         *)
(* Python strings are modelled as sequences of one-character strings so    *)
(* that prefix, suffix and lower-casing are computed as the code computes  *)
(* them.  Python values stored in a record are tagged: [s |-> chars] is a  *)
(* str, [b |-> BOOLEAN] a bool, [n |-> Int] an int, [m |-> map] a dict and *)
(* [none |-> TRUE] is None.                                                *)
(***************************************************************************)
EXTENDS Integers, Sequences, FiniteSets, TLC

(* ------------------------------ strings -------------------------------- *)

LowerChar(c) ==
  CASE c = "A" -> "a"
    [] c = "B" -> "b"
    [] c = "C" -> "c"
    [] c = "D" -> "d"
    [] c = "E" -> "e"
    [] c = "F" -> "f"
    [] c = "G" -> "g"
    [] c = "H" -> "h"
    [] c = "I" -> "i"
    [] c = "J" -> "j"
    [] c = "K" -> "k"
    [] c = "L" -> "l"
    [] c = "M" -> "m"
    [] c = "N" -> "n"
    [] c = "O" -> "o"
    [] c = "P" -> "p"
    [] c = "Q" -> "q"
    [] c = "R" -> "r"
    [] c = "S" -> "s"
    [] c = "T" -> "t"
    [] c = "U" -> "u"
    [] c = "V" -> "v"
    [] c = "W" -> "w"
    [] c = "X" -> "x"
    [] c = "Y" -> "y"
    [] c = "Z" -> "z"
    [] OTHER -> c


Lower(s) == [i \in 1..Len(s) |-> LowerChar(s[i])]

StartsWith(s, p) == Len(s) >= Len(p) /\ SubSeq(s, 1, Len(p)) = p

EndsWith(s, p) == Len(s) >= Len(p) /\ SubSeq(s, Len(s) - Len(p) + 1, Len(s)) = p

Drop(s, n) == SubSeq(s, n + 1, Len(s))

Range(s) == {s[i] : i \in 1..Len(s)}

S_http == <<"h", "t", "t", "p", ":", "/", "/", "g", "i", "t", "h", "u", "b", ".", "c", "o", "m", "/">>

S_https == <<"h", "t", "t", "p", "s", ":", "/", "/", "g", "i", "t", "h", "u", "b", ".", "c", "o", "m", "/">>


(* --------------------------- parse_repo -------------------------------- *)
\* GITHUB_RE: "http", optional "s", "://github.com/", owner = one or more non-"/",
\* "/", repo = one or more characters other than "/" and "#", then optionally
\* "/" and any characters, then the end of the string.

NoMatch == [nomatch |-> TRUE]

\* index of the first "/" of s, or 0
RECURSIVE FirstSlash(_, _)
FirstSlash(s, i) ==
  IF i > Len(s) THEN 0
  ELSE IF s[i] = "/" THEN i
  ELSE FirstSlash(s, i + 1)

\* length of the longest prefix of s matched by [^/#]+
RECURSIVE RepoRun(_, _)
RepoRun(s, i) ==
  IF i > Len(s) THEN Len(s)
  ELSE IF s[i] \in {"/", "#"} THEN i - 1
  ELSE RepoRun(s, i + 1)

\* "$" matches at the end of the string or just before a final newline
AtEnd(s) == s = <<>> \/ s = <<"\n">>

\* ".*$": "." matches any character but a newline
DotStarEnd(s) ==
  \/ "\n" \notin Range(s)
  \/ Len(s) >= 1 /\ s[Len(s)] = "\n" /\ "\n" \notin Range(SubSeq(s, 1, Len(s) - 1))

\* "$" alone: nothing may follow the repo group
RestMatches_end_only(s) == AtEnd(s)

\* "(?:/.*)?$" against what follows the repo group
RestMatches(s) == AtEnd(s) \/ (Len(s) >= 1 /\ s[1] = "/" /\ DotStarEnd(Drop(s, 1)))

GITHUB_RE(url) ==
  LET body == IF StartsWith(url, S_https) THEN Drop(url, Len(S_https))
              ELSE IF StartsWith(url, S_http) THEN Drop(url, Len(S_http))
              ELSE <<"/">>
      k    == FirstSlash(body, 1)
      tail == Drop(body, k)
      r    == RepoRun(tail, 1)
  IN  IF k >= 2 /\ r >= 1 /\ RestMatches(Drop(tail, r))
      THEN [owner |-> SubSeq(body, 1, k - 1), repo |-> SubSeq(tail, 1, r)]
      ELSE NoMatch

parse_repo(url) ==
  LET m == GITHUB_RE(url)
  IN  IF m # NoMatch
      THEN [host |-> <<"g", "i", "t", "h", "u", "b">>, owner |-> m.owner, repo |-> m.repo]
      ELSE NoMatch

(* ----------------------- detect_build_systems -------------------------- *)

exists_any(paths, candidates) ==
  LET lower_paths == {Lower(p) : p \in paths}
  IN  \E c \in candidates : Lower(c) \in lower_paths

sig_makefile(paths) ==
  \/ exists_any(paths, {<<"m", "a", "k", "e", "f", "i", "l", "e">>, <<"g", "n", "u", "\n", "m", "a", "k", "e", "f", "i", "l", "e">>, <<"g", "n", "u", "-", "m", "a", "k", "e", "f", "i", "l", "e">>})
  \/ \E p \in paths : EndsWith(p, <<"/", "M", "a", "k", "e", "f", "i", "l", "e">>) \/ EndsWith(p, <<"/", "m", "a", "k", "e", "f", "i", "l", "e">>)

sig_bazel(paths) ==
  \/ exists_any(paths, {<<"w", "o", "r", "k", "s", "p", "a", "c", "e">>, <<"w", "o", "r", "k", "s", "p", "a", "c", "e", ".", "b", "a", "z", "e", "l">>})
  \/ \E p \in paths : \/ EndsWith(p, <<"/", "W", "O", "R", "K", "S", "P", "A", "C", "E">>)
                      \/ EndsWith(p, <<"/", "W", "O", "R", "K", "S", "P", "A", "C", "E", ".", "b", "a", "z", "e", "l">>)
                      \/ EndsWith(p, <<".", "b", "z", "l">>)
                      \/ EndsWith(p, <<"B", "U", "I", "L", "D">>)
                      \/ EndsWith(p, <<"B", "U", "I", "L", "D", ".", "b", "a", "z", "e", "l">>)

sig_justfile(paths) ==
  exists_any(paths, {<<"j", "u", "s", "t", "f", "i", "l", "e">>}) \/ \E p \in paths : EndsWith(p, <<"/", "J", "u", "s", "t", "f", "i", "l", "e">>)

sig_goreleaser(paths) ==
  \/ exists_any(paths, {<<".", "g", "o", "r", "e", "l", "e", "a", "s", "e", "r", ".", "y", "m", "l">>, <<".", "g", "o", "r", "e", "l", "e", "a", "s", "e", "r", ".", "y", "a", "m", "l">>, <<"g", "o", "r", "e", "l", "e", "a", "s", "e", "r", ".", "y", "m", "l">>, <<"g", "o", "r", "e", "l", "e", "a", "s", "e", "r", ".", "y", "a", "m", "l">>})
  \/ \E p \in paths : \/ EndsWith(Lower(p), <<"/", ".", "g", "o", "r", "e", "l", "e", "a", "s", "e", "r", ".", "y", "m", "l">>)
                      \/ EndsWith(Lower(p), <<"/", ".", "g", "o", "r", "e", "l", "e", "a", "s", "e", "r", ".", "y", "a", "m", "l">>)

sig_dockerfile(paths) ==
  exists_any(paths, {<<"d", "o", "c", "k", "e", "r", "f", "i", "l", "e">>}) \/ \E p \in paths : EndsWith(p, <<"/", "D", "o", "c", "k", "e", "r", "f", "i", "l", "e">>)

sig_mage(paths) ==
  \E p \in paths : EndsWith(Lower(p), <<"/", "m", "a", "g", "e", "f", "i", "l", "e", ".", "g", "o">>) \/ Lower(p) = <<"m", "a", "g", "e", "f", "i", "l", "e", ".", "g", "o">>

sig_gotask(paths) ==
  \E p \in paths : EndsWith(Lower(p), <<"/", "t", "a", "s", "k", "f", "i", "l", "e", ".", "y", "m", "l">>) \/ Lower(p) = <<"t", "a", "s", "k", "f", "i", "l", "e", ".", "y", "m", "l">>

sig_gomod(paths) == \E p \in paths : p = <<"g", "o", ".", "m", "o", "d">> \/ EndsWith(p, <<"/", "g", "o", ".", "m", "o", "d">>)

sig_gowork(paths) == \E p \in paths : p = <<"g", "o", ".", "w", "o", "r", "k">> \/ EndsWith(p, <<"/", "g", "o", ".", "w", "o", "r", "k">>)

sig_buf(paths) ==
  \E p \in paths : \/ p = <<"b", "u", "f", ".", "y", "a", "m", "l">> \/ p = <<"b", "u", "f", ".", "y", "m", "l">>
                   \/ EndsWith(p, <<"/", "b", "u", "f", ".", "y", "a", "m", "l">>) \/ EndsWith(p, <<"/", "b", "u", "f", ".", "y", "m", "l">>)

sig_drone(paths) == \E p \in paths : p = <<".", "d", "r", "o", "n", "e", ".", "y", "m", "l">> \/ EndsWith(p, <<"/", ".", "d", "r", "o", "n", "e", ".", "y", "m", "l">>)

\* only the workflows directory itself counts
sig_github_actions_exact(paths) ==
  \E p \in paths : p = <<".", "g", "i", "t", "h", "u", "b", "/", "w", "o", "r", "k", "f", "l", "o", "w", "s", "/">>

sig_github_actions(paths) == \E p \in paths : StartsWith(p, <<".", "g", "i", "t", "h", "u", "b", "/", "w", "o", "r", "k", "f", "l", "o", "w", "s", "/">>)

sig_circleci(paths) ==
  \E p \in paths : p = <<".", "c", "i", "r", "c", "l", "e", "c", "i", "/", "c", "o", "n", "f", "i", "g", ".", "y", "m", "l">> \/ EndsWith(p, <<"/", ".", "c", "i", "r", "c", "l", "e", "c", "i", "/", "c", "o", "n", "f", "i", "g", ".", "y", "m", "l">>)

sig_gitlab_ci(paths) ==
  \E p \in paths : p = <<".", "g", "i", "t", "l", "a", "b", "-", "c", "i", ".", "y", "m", "l">> \/ EndsWith(p, <<"/", ".", "g", "i", "t", "l", "a", "b", "-", "c", "i", ".", "y", "m", "l">>)

\* the keys of the booleans dict, in the order the code lists them
SignalKeys ==
  << "makefile", "bazel", "justfile", "goreleaser", "dockerfile", "mage", "gotask",
     "gomod", "gowork", "buf", "drone", "github_actions", "circleci", "gitlab_ci" >>

\* the human-readable names appended to files_present, same order
SignalNames ==
  << <<"M", "a", "k", "e", "f", "i", "l", "e">>, <<"B", "a", "z", "e", "l">>, <<"J", "u", "s", "t", "f", "i", "l", "e">>, <<"G", "o", "r", "e", "l", "e", "a", "s", "e", "r">>, <<"D", "o", "c", "k", "e", "r", "f", "i", "l", "e">>, <<"M", "a", "g", "e", "f", "i", "l", "e">>,
     <<"T", "a", "s", "k", "f", "i", "l", "e">>, <<"g", "o", ".", "m", "o", "d">>, <<"g", "o", ".", "w", "o", "r", "k">>, <<"b", "u", "f">>, <<"D", "r", "o", "n", "e">>, <<"G", "i", "t", "H", "u", "b", " ", "A", "c", "t", "i", "o", "n", "s">>,
     <<"C", "i", "r", "c", "l", "e", "C", "I">>, <<"G", "i", "t", "L", "a", "b", " ", "C", "I">> >>

\* the providers in the order of the signal table, drone first
CiOrder_table == << 11, 12, 13, 14 >>

\* positions, in SignalKeys, of the ci_providers list: github_actions, circleci, gitlab_ci, drone
CiOrder == << 12, 13, 14, 11 >>

booleans(paths) ==
  [ makefile       |-> sig_makefile(paths),
    bazel          |-> sig_bazel(paths),
    justfile       |-> sig_justfile(paths),
    goreleaser     |-> sig_goreleaser(paths),
    dockerfile     |-> sig_dockerfile(paths),
    mage           |-> sig_mage(paths),
    gotask         |-> sig_gotask(paths),
    gomod          |-> sig_gomod(paths),
    gowork         |-> sig_gowork(paths),
    buf            |-> sig_buf(paths),
    drone          |-> sig_drone(paths),
    github_actions |-> sig_github_actions(paths),
    circleci       |-> sig_circleci(paths),
    gitlab_ci      |-> sig_gitlab_ci(paths) ]

\* the list comprehension / append loop: keep, in order, the entries that are present
RECURSIVE FilterPresent(_, _, _)
FilterPresent(order, flags, i) ==
  IF i > Len(order) THEN <<>>
  ELSE (IF flags[SignalKeys[order[i]]] THEN <<order[i]>> ELSE <<>>)
       \o FilterPresent(order, flags, i + 1)

\* the one element of a one-element set
Only(S) == CHOOSE x \in S : TRUE

files_present(flags) ==
  Only({ [i \in 1..Len(idx) |-> SignalNames[idx[i]]] :
           idx \in {FilterPresent([i \in 1..Len(SignalKeys) |-> i], flags, 1)} })

ci_providers(flags) ==
  Only({ [i \in 1..Len(idx) |-> SignalKeys[idx[i]]] :
           idx \in {FilterPresent(CiOrder, flags, 1)} })

\* the flags are computed once, then the two lists are built from them
detect_build_systems(paths) ==
  Only({ [ booleans |-> flags,
           meta     |-> Only({ [ files_present       |-> fp,
                                 ci_providers        |-> ci_providers(flags),
                                 detected_file_count |-> Len(fp) ] :
                               fp \in {files_present(flags)} }) ] :
         flags \in {booleans(paths)} })

(* --------------------------- Python values ----------------------------- *)

Str(s) == [s |-> s]

Bool(b) == [b |-> b]

Num(n) == [n |-> n]

List(l) == [l |-> l]

Map(m) == [m |-> m]

None == [none |-> TRUE]

IsStr(v) == DOMAIN v = {"s"}

IsInt(v) == DOMAIN v = {"n"}

IsMap(v) == DOMAIN v = {"m"}

EmptyDict == <<>>

\* dict.update(u): the keys of u are written over d, every other key of d is kept
DictUpdate(d, u) ==
  [k \in DOMAIN d \cup DOMAIN u |-> IF k \in DOMAIN u THEN u[k] ELSE d[k]]

\* dict.get(k, default)
DictGet(d, k, default) == IF k \in DOMAIN d THEN d[k] ELSE default

\* entry.setdefault("build_metadata", {})
SetDefaultMeta(entry) ==
  IF "build_metadata" \in DOMAIN entry THEN entry
  ELSE DictUpdate(entry, "build_metadata" :> Map(EmptyDict))

UpdateMeta_replace(entry, u) ==
  [k \in DOMAIN entry \cup {"build_metadata"} |->
     IF k = "build_metadata" THEN Map(u) ELSE entry[k]]

\* entry["build_metadata"].update(u)
UpdateMeta(entry, u) ==
  LET e == SetDefaultMeta(entry)
  IN  [e EXCEPT !["build_metadata"] = Map(DictUpdate(e["build_metadata"].m, u))]

RECURSIVE Decimal(_)
Decimal(n) ==
  LET d == <<"0", "1", "2", "3", "4", "5", "6", "7", "8", "9">>
  IN  IF n < 10 THEN <<d[n + 1]>> ELSE Decimal(n \div 10) \o <<d[(n % 10) + 1]>>

\* now_iso(): the reading of the clock, as text
now_iso(t) == Str(<<"T">> \o Decimal(t))

(* ---------------------------- GitHubClient ----------------------------- *)

RepoUrl(ref) == <<"h", "t", "t", "p", "s", ":", "/", "/", "a", "p", "i", ".", "g", "i", "t", "h", "u", "b", ".", "c", "o", "m", "/", "r", "e", "p", "o", "s", "/">> \o ref.owner \o <<"/">> \o ref.repo

TreeUrl_main(ref, branch) ==
  <<"h", "t", "t", "p", "s", ":", "/", "/", "a", "p", "i", ".", "g", "i", "t", "h", "u", "b", ".", "c", "o", "m", "/", "r", "e", "p", "o", "s", "/">> \o ref.owner \o <<"/">> \o ref.repo
    \o <<"/", "g", "i", "t", "/", "t", "r", "e", "e", "s", "/">> \o <<"m", "a", "i", "n">> \o <<"?", "r", "e", "c", "u", "r", "s", "i", "v", "e", "=", "1">>

TreeUrl(ref, branch) ==
  <<"h", "t", "t", "p", "s", ":", "/", "/", "a", "p", "i", ".", "g", "i", "t", "h", "u", "b", ".", "c", "o", "m", "/", "r", "e", "p", "o", "s", "/">> \o ref.owner \o <<"/">> \o ref.repo
    \o <<"/", "g", "i", "t", "/", "t", "r", "e", "e", "s", "/">> \o branch \o <<"?", "r", "e", "c", "u", "r", "s", "i", "v", "e", "=", "1">>

RateUrl == <<"h", "t", "t", "p", "s", ":", "/", "/", "a", "p", "i", ".", "g", "i", "t", "h", "u", "b", ".", "c", "o", "m", "/", "r", "a", "t", "e", "_", "l", "i", "m", "i", "t">>

\* asyncio.Semaphore(concurrency): the initial number of permits
NewSemaphore(concurrency) == concurrency

CanAcquire_unbounded(s, w) == TRUE

\* Semaphore.acquire returns at once when a permit is free and nobody is queued
CanAcquire(s, w) == s > 0 /\ w = <<>>

Released_on_success_only(raised) == IF raised THEN 0 ELSE 1

\* "async with self._sem": the number of permits given back on the way out of
\* the block, whether the body returned or raised
Released(raised) == 1

\* A response as the session delivers it:
\*   [kind |-> "timeout"]                        the total timeout expired
\*   [kind |-> "badjson", status |-> n]          the body is not JSON
\*   [kind |-> "json", status, body, remaining]  body: a dict; remaining: the
\*                                               x-ratelimit-remaining header or None
\* _get_json gives [ok |-> TRUE, data, rate] or, when it raises,
\* [ok |-> FALSE, type |-> the exception class, error |-> str(e)]
Raise(type, msg) == [ok |-> FALSE, type |-> type, error |-> msg]

get_json(url, resp) ==
  IF resp.kind = "timeout" THEN Raise("TimeoutError", <<>>)
  ELSE IF resp.kind = "badjson" THEN Raise("JSONDecodeError", <<"E", "x", "p", "e", "c", "t", "i", "n", "g", " ", "v", "a", "l", "u", "e", ":", " ", "l", "i", "n", "e", " ", "1", " ", "c", "o", "l", "u", "m", "n", " ", "1", " ", "(", "c", "h", "a", "r", " ", "0", ")">>)
  ELSE IF resp.status >= 400
       THEN Raise("RuntimeError", <<"H", "T", "T", "P", " ">> \o Decimal(resp.status) \o <<" ", "f", "o", "r", " ">> \o url \o <<":", " ">> \o resp.text)
  ELSE [ok |-> TRUE, data |-> resp.body, rate |-> resp.remaining]

get_default_branch(ref, resp) ==
  LET r == get_json(RepoUrl(ref), resp)
  IN  IF ~r.ok THEN r
      ELSE [ok |-> TRUE, branch |-> DictGet(r.data, "default_branch", <<"m", "a", "i", "n">>), rate |-> r.rate]

\* the set of the truthy "path" fields of the "tree" items
get_tree_paths(ref, branch, resp) ==
  LET r    == get_json(TreeUrl(ref, branch), resp)
      tree == DictGet(r.data, "tree", <<>>)
  IN  IF ~r.ok THEN r
      ELSE [ok    |-> TRUE,
            paths |-> {tree[i].path : i \in {j \in 1..Len(tree) :
                                               "path" \in DOMAIN tree[j] /\ tree[j].path # <<>>}},
            rate  |-> r.rate]

\* a failed probe counted as an exhausted quota
get_rate_limit_remaining_zero(resp) ==
  LET r         == get_json(RateUrl, resp)
      core      == DictGet(DictGet(r.data, "resources", EmptyDict), "core", EmptyDict)
      remaining == DictGet(core, "remaining", None)
  IN  IF ~r.ok THEN Num(0)
      ELSE IF IsInt(remaining) THEN remaining
      ELSE Num(0)

\* None on any failure or when "remaining" is not an int
get_rate_limit_remaining(resp) ==
  LET r         == get_json(RateUrl, resp)
      core      == DictGet(DictGet(r.data, "resources", EmptyDict), "core", EmptyDict)
      remaining == DictGet(core, "remaining", None)
  IN  IF ~r.ok THEN None
      ELSE IF IsInt(remaining) THEN remaining
      ELSE None

\* two calls for each record, without the floor of one
estimated_needed_twice(n) == n * 2

\* "estimated_needed = max(1, len(data) * 2)"
estimated_needed(n) == IF n * 2 > 1 THEN n * 2 ELSE 1

(* ----------------------------- enrich_entry ---------------------------- *)

HasStrUrl(entry) == "url" \in DOMAIN entry /\ IsStr(entry["url"])

EntryRef(entry) == IF HasStrUrl(entry) THEN parse_repo(entry["url"].s) ELSE NoMatch

Caught_timeout_only(type) == type = "TimeoutError"

\* "except Exception": the classes the handler of enrich_entry catches
Caught(type) == type \in {"RuntimeError", "TimeoutError", "JSONDecodeError"}

enrich_unsupported_with_signals(entry, ts) ==
  [k \in DOMAIN entry \cup {"build_metadata", "makefile", "gomod"} |->
     IF k = "build_metadata"
     THEN Map(DictUpdate(IF k \in DOMAIN entry THEN entry[k].m ELSE EmptyDict,
                         [ repo_host           |-> Str(<<"u", "n", "k", "n", "o", "w", "n">>),
                           note                |-> Str(<<"N", "o", "n", "-", "G", "i", "t", "H", "u", "b", " ", "r", "e", "p", "o", "s", "i", "t", "o", "r", "i", "e", "s", " ", "n", "o", "t", " ", "y", "e", "t", " ", "s", "u", "p", "p", "o", "r", "t", "e", "d">>),
                           detection_timestamp |-> ts ]))
     ELSE IF k \in DOMAIN entry THEN entry[k]
     ELSE Bool(FALSE)]

\* the branch for a url that does not match GITHUB_RE
enrich_unsupported(entry, ts) ==
  UpdateMeta(entry,
    [ repo_host           |-> Str(<<"u", "n", "k", "n", "o", "w", "n">>),
      note                |-> Str(<<"N", "o", "n", "-", "G", "i", "t", "H", "u", "b", " ", "r", "e", "p", "o", "s", "i", "t", "o", "r", "i", "e", "s", " ", "n", "o", "t", " ", "y", "e", "t", " ", "s", "u", "p", "p", "o", "r", "t", "e", "d">>),
      detection_timestamp |-> ts ])

\* "for k, v in booleans.items(): entry[k] = v"
merge_signals(entry, flags) ==
  DictUpdate(entry, [k \in DOMAIN flags |-> Bool(flags[k])])

\* the body of the try block after both calls returned
enrich_success(entry, ref, default_branch, paths, rate_tree, ts) ==
  Only({ UpdateMeta(merge_signals(entry, d.booleans),
           [ repo_host                |-> Str(ref.host),
             owner                    |-> Str(ref.owner),
             repo                     |-> Str(ref.repo),
             repo_default_branch      |-> Str(default_branch),
             detection_timestamp      |-> ts,
             api_rate_limit_remaining |-> rate_tree,
             files_present            |-> List([i \in 1..Len(d.meta.files_present) |->
                                                  Str(d.meta.files_present[i])]),
             ci_providers             |-> List(d.meta.ci_providers),
             detected_file_count      |-> Num(d.meta.detected_file_count) ]) :
         d \in {detect_build_systems(paths)} })

enrich_failure_no_error(entry, ref, msg, ts) ==
  [k \in DOMAIN entry \cup {"build_metadata"} |->
     IF k = "build_metadata"
     THEN Map(DictUpdate(IF k \in DOMAIN entry THEN entry[k].m ELSE EmptyDict,
                         [ repo_host           |-> Str(ref.host),
                           owner               |-> Str(ref.owner),
                           repo                |-> Str(ref.repo),
                           detection_timestamp |-> ts ]))
     ELSE entry[k]]

enrich_failure_resets_signals(entry, ref, msg, ts) ==
  [k \in DOMAIN entry \cup {"build_metadata"} |->
     IF k = "build_metadata"
     THEN Map(DictUpdate(IF k \in DOMAIN entry THEN entry[k].m ELSE EmptyDict,
                         [ repo_host           |-> Str(ref.host),
                           owner               |-> Str(ref.owner),
                           repo                |-> Str(ref.repo),
                           error               |-> Str(msg),
                           detection_timestamp |-> ts ]))
     ELSE IF k \in {"makefile", "gomod", "dockerfile"} THEN Bool(FALSE)
     ELSE entry[k]]

\* the except block
enrich_failure(entry, ref, msg, ts) ==
  UpdateMeta(entry,
    [ repo_host           |-> Str(ref.host),
      owner               |-> Str(ref.owner),
      repo                |-> Str(ref.repo),
      error               |-> Str(msg),
      detection_timestamp |-> ts ])

gather_completion_order(n, completed) == completed

\* a record without a usable url marked like one of an unsupported host
enrich_no_url_marked(entry) ==
  UpdateMeta(entry, "repo_host" :> Str(<<"u", "n", "k", "n", "o", "w", "n">>))

\* "if not isinstance(url, str): return entry"
enrich_no_url(entry) == entry

\* whether 'entry["build_metadata"].update' exists once setdefault has run:
\* setdefault leaves a value that is already there, and only a dict has update
meta_updatable(entry) ==
  "build_metadata" \notin DOMAIN entry \/ IsMap(entry["build_metadata"])

\* asyncio.gather: slot i of the result list holds what task i returned
gather(n, completed) == [i \in 1..n |-> i]

(* ------------------------------- bounds -------------------------------- *)

MaxRecords == 2

MaxConcurrency == 2

\* how many times the program is started on the same file
MaxRuns == 2

\* paths in a tree handed to detect_build_systems directly
MaxPaths == 2

\* path segments after the host in a url handed to parse_repo directly
MaxSegments == 3

(* ------------------------------- inputs -------------------------------- *)

\* Records of the input list.  A record is a mapping; build_metadata, when
\* present, is a mapping (it is only ever written by an earlier run).
E_plain ==
  ("url" :> Str(<<"h", "t", "t", "p", "s", ":", "/", "/", "g", "i", "t", "h", "u", "b", ".", "c", "o", "m", "/", "o", "/", "r">>)) @@ ("version" :> Str(<<"v", "1">>))

E_prior ==
  ("url" :> Str(<<"h", "t", "t", "p", ":", "/", "/", "g", "i", "t", "h", "u", "b", ".", "c", "o", "m", "/", "a", "/", "b", "/", "t", "r", "e", "e", "/", "m", "a", "i", "n">>)) @@ ("version" :> Str(<<"v", "2">>))
    @@ ("makefile" :> Bool(TRUE)) @@ ("gomod" :> Str(<<"y", "e", "s">>))
    @@ ("build_metadata" :> Map(("custom" :> Str(<<"k", "e", "e", "p">>)) @@ ("repo_host" :> Str(<<"o", "l", "d">>))))

E_other ==
  ("url" :> Str(<<"h", "t", "t", "p", "s", ":", "/", "/", "e", "x", "a", "m", "p", "l", "e", ".", "c", "o", "m", "/", "o", "/", "r">>)) @@ ("dockerfile" :> Bool(TRUE))
    @@ ("build_metadata" :> Map("custom" :> Str(<<"k", "e", "e", "p">>)))

E_nourl == ("version" :> Str(<<"v", "3">>))

E_numurl == ("url" :> Num(7)) @@ ("version" :> Str(<<"v", "4">>))

\* a record whose build_metadata key is present and empty (YAML "build_metadata:")
E_nullmeta ==
  ("url" :> Str(<<"h", "t", "t", "p", "s", ":", "/", "/", "g", "i", "t", "h", "u", "b", ".", "c", "o", "m", "/", "o", "/", "n">>)) @@ ("build_metadata" :> None)

Entries == {E_plain, E_prior, E_other, E_nourl, E_numurl}

RecordLists == UNION {[1..n -> Entries] : n \in 0..MaxRecords}

\* what yaml.safe_load finds in the file: a syntax error, a mapping with keys,
\* the mapping {}, nothing (an empty file) or a list
Documents ==
  {[kind |-> "yaml_error"], [kind |-> "mapping"], [kind |-> "empty_mapping"], [kind |-> "null"]}
    \cup {[kind |-> "list", items |-> l] : l \in RecordLists}

\* Python truth value of a loaded document
Falsy(doc) ==
  \/ doc.kind \in {"null", "empty_mapping"}
  \/ doc.kind = "list" /\ doc.items = <<>>

\* "yaml.safe_load(f) or []"
safe_load_or_list(doc) == IF Falsy(doc) THEN [kind |-> "list", items |-> <<>>] ELSE doc

\* "isinstance(data, list)"
is_list(doc) == doc.kind = "list"

Missing == [kind |-> "missing"]

BranchResponses ==
  { [kind |-> "json", status |-> 200, body |-> [default_branch |-> <<"d", "e", "v">>], remaining |-> Str(<<"5", "8">>)],
    [kind |-> "json", status |-> 200, body |-> EmptyDict, remaining |-> None],
    [kind |-> "json", status |-> 404, text |-> <<"{", "'", "m", "e", "s", "s", "a", "g", "e", "'", ":", " ", "'", "N", "o", "t", " ", "F", "o", "u", "n", "d", "'", "}">>],
    [kind |-> "timeout"] }

TreeResponses ==
  { [kind |-> "json", status |-> 200, remaining |-> Str(<<"5", "7">>),
     body |-> [tree |-> << [path |-> <<"g", "o", ".", "m", "o", "d">>], [path |-> <<".", "g", "i", "t", "h", "u", "b", "/", "w", "o", "r", "k", "f", "l", "o", "w", "s", "/", "c", "i", ".", "y", "m", "l">>] >>]],
    [kind |-> "json", status |-> 200, remaining |-> None,
     body |-> [tree |-> << [path |-> <<"s", "e", "r", "v", "i", "c", "e", "s", "/", "a", "p", "i", "/", "D", "o", "c", "k", "e", "r", "f", "i", "l", "e">>], [type |-> <<"t", "r", "e", "e">>], [path |-> <<>>] >>]],
    [kind |-> "json", status |-> 403, text |-> <<"{", "'", "m", "e", "s", "s", "a", "g", "e", "'", ":", " ", "'", "r", "a", "t", "e", " ", "l", "i", "m", "i", "t", " ", "e", "x", "c", "e", "e", "d", "e", "d", "'", "}">>],
    [kind |-> "badjson", status |-> 200] }

RateResponses ==
  { [kind |-> "json", status |-> 200, remaining |-> None,
     body |-> [resources |-> [core |-> [remaining |-> Num(0)]]]],
    [kind |-> "json", status |-> 200, remaining |-> None,
     body |-> [resources |-> [core |-> [remaining |-> Num(2)]]]],
    [kind |-> "json", status |-> 200, remaining |-> None,
     body |-> [resources |-> [core |-> [remaining |-> Num(60)]]]],
    [kind |-> "json", status |-> 200, remaining |-> None, body |-> EmptyDict],
    [kind |-> "json", status |-> 200, remaining |-> None,
     body |-> [resources |-> [core |-> [remaining |-> Str(<<"n", "/", "a">>)]]]],
    [kind |-> "badjson", status |-> 200],
    [kind |-> "json", status |-> 500, text |-> <<"o", "o", "p", "s">>],
    [kind |-> "timeout"] }

(* -------------------------------- state -------------------------------- *)

VARIABLES
  pc,          \* where main / process_file is
  disk,        \* the YAML file: Missing or a document
  token,       \* TRUE when a credential is configured
  concurrency, \* the ceiling given to GitHubClient
  input,       \* the list as loaded, kept for comparison
  data,        \* the list of records, mutated in place by the tasks
  sem,         \* free permits of GitHubClient._sem
  waiters,     \* tasks queued on the semaphore, in arrival order (0 is main)
  tpc,         \* where each record's enrich_entry task is
  held,        \* permits held by each task (index 0 is main)
  branch,      \* default_branch of each task once resolved (a Str), None before
  issued,      \* the URLs each task has requested, in order (index 0 is main)
  bresp,       \* the response each task got to its repository call, None before
  tresp,       \* the response each task got to its tree call, None before
  completed,   \* task indices in the order the tasks returned
  clock,       \* the next reading of the clock
  remaining,   \* result of the pre-flight probe
  warned,      \* TRUE when the low-quota warning was printed
  exit_code,   \* process exit code, -1 while running
  run,         \* how many times the program was started on the file
  call,        \* a direct call of parse_repo or detect_build_systems, None if none
  ret          \* what that call returned, None before it returns

vars == << pc, disk, token, concurrency, input, data, sem, waiters, tpc, held,
           branch, issued, bresp, tresp, completed, clock, remaining, warned, exit_code,
           run, call, ret >>

Tasks == 1..Len(data)

InFlight == {i \in DOMAIN tpc : tpc[i] \in {"call_branch", "call_tree"}}
              \cup (IF pc = "probe_call" THEN {0} ELSE {})

Init ==
  /\ pc = "main"
  /\ disk \in Documents \cup {Missing}
  /\ token \in BOOLEAN
  /\ concurrency \in 0..MaxConcurrency
  /\ input = <<>>
  /\ data = <<>>
  /\ sem = 0
  /\ waiters = <<>>
  /\ tpc = <<>>
  /\ held = (0 :> 0)
  /\ branch = <<>>
  /\ issued = (0 :> <<>>)
  /\ bresp = <<>>
  /\ tresp = <<>>
  /\ completed = <<>>
  /\ clock = 1
  /\ remaining = None
  /\ warned = FALSE
  /\ exit_code = -1
  /\ run = 1
  /\ call = None
  /\ ret = None

(* ------------------------------- main ---------------------------------- *)

\* main: the file does not exist
MainMissing ==
  /\ pc = "main"
  /\ disk = Missing
  /\ pc' = "exit"
  /\ exit_code' = 2
  /\ UNCHANGED << disk, token, concurrency, input, data, sem, waiters, tpc, held,
                  branch, issued, bresp, tresp, completed, clock, remaining, warned >>
  /\ UNCHANGED << run, call, ret >>

\* process_file: yaml.safe_load raises, or the document is not a list
LoadFail ==
  /\ pc = "main"
  /\ disk # Missing
  /\ disk.kind = "yaml_error" \/ ~is_list(safe_load_or_list(disk))
  /\ pc' = "exit"
  /\ exit_code' = 1
  /\ UNCHANGED << disk, token, concurrency, input, data, sem, waiters, tpc, held,
                  branch, issued, bresp, tresp, completed, clock, remaining, warned >>
  /\ UNCHANGED << run, call, ret >>

\* process_file: the list is loaded ("or []" for an empty document), the client
\* is constructed and, without a token, the pre-flight probe asks for a permit
LoadOk ==
  /\ pc = "main"
  /\ disk # Missing
  /\ disk.kind # "yaml_error"
  /\ is_list(safe_load_or_list(disk))
  /\ LET items == safe_load_or_list(disk).items
         s     == NewSemaphore(concurrency)
     IN  /\ input' = items
         /\ data' = items
         /\ IF token
            THEN /\ pc' = "launch"
                 /\ sem' = s
                 /\ UNCHANGED << waiters, held, issued >>
            ELSE IF CanAcquire(s, <<>>)
            THEN /\ pc' = "probe_call"
                 /\ sem' = s - 1
                 /\ held' = (0 :> 1)
                 /\ issued' = (0 :> <<RateUrl>>)
                 /\ UNCHANGED waiters
            ELSE /\ pc' = "probe_wait"
                 /\ sem' = s
                 /\ waiters' = <<0>>
                 /\ UNCHANGED << held, issued >>
  /\ UNCHANGED << disk, token, concurrency, tpc, branch, bresp, tresp, completed,
                  clock, remaining, warned, exit_code >>
  /\ UNCHANGED << run, call, ret >>

\* the probe's request completes: get_rate_limit_remaining returns, the permit
\* is released and the warning is printed when the quota looks too low
ProbeReturn(resp) ==
  /\ pc = "probe_call"
  /\ \E r \in {get_json(RateUrl, resp)} :
     \E rem \in {get_rate_limit_remaining(resp)} :
     \E needed \in {estimated_needed(Len(data))} :
         /\ sem' = sem + Released(~r.ok)
         /\ held' = [held EXCEPT ![0] = @ - Released(~r.ok)]
         /\ remaining' = rem
         /\ warned' = (rem # None /\ rem.n < needed)
  /\ pc' = "launch"
  /\ UNCHANGED << disk, token, concurrency, input, data, waiters, tpc, branch,
                  issued, bresp, tresp, completed, clock, exit_code >>
  /\ UNCHANGED << run, call, ret >>

\* "tasks = [enrich_entry(entry, gh) for entry in data]" and the call of gather
Launch ==
  /\ pc = "launch"
  /\ pc' = "gather"
  /\ tpc' = [i \in Tasks |-> "start"]
  /\ branch' = [i \in Tasks |-> None]
  /\ bresp' = [i \in Tasks |-> None]
  /\ tresp' = [i \in Tasks |-> None]
  /\ held' = [i \in {0} \cup Tasks |-> IF i = 0 THEN held[0] ELSE 0]
  /\ issued' = [i \in {0} \cup Tasks |-> IF i = 0 THEN issued[0] ELSE <<>>]
  /\ UNCHANGED << disk, token, concurrency, input, data, sem, waiters, completed,
                  clock, remaining, warned, exit_code >>
  /\ UNCHANGED << run, call, ret >>

(* -------------------------- enrich_entry tasks ------------------------- *)
\* In the actions "\E x \in {e} : ..." names the value of e, as a local variable
\* of the code does.

\* task i returns from enrich_entry with its record set to e
Finish(i, e, stamped) ==
  /\ data' = [data EXCEPT ![i] = e]
  /\ tpc' = [tpc EXCEPT ![i] = "done"]
  /\ completed' = Append(completed, i)
  /\ clock' = IF stamped THEN clock + 1 ELSE clock

\* an exception leaves enrich_entry: gather hands it to process_file, the run
\* ends with a traceback and the tasks still running are cancelled
Propagate(i, e) ==
  /\ tpc' = [j \in Tasks |-> IF j = i THEN "raised"
                             ELSE IF tpc[j] = "done" THEN "done" ELSE "cancelled"]
  /\ pc' = "crashed"
  /\ exit_code' = 1
  /\ data' = [data EXCEPT ![i] = e]
  /\ UNCHANGED << completed, clock >>

\* task i asks for a permit for the request of url, with s permits free
Request(i, url, s) ==
  IF CanAcquire(s, waiters)
  THEN /\ sem' = s - 1
       /\ issued' = [issued EXCEPT ![i] = Append(@, url)]
       /\ UNCHANGED waiters
  ELSE /\ sem' = s
       /\ waiters' = Append(waiters, i)
       /\ UNCHANGED issued

\* enrich_entry up to its first suspension point
TaskStart(i) ==
  /\ pc = "gather"
  /\ tpc[i] = "start"
  /\ \E entry \in {data[i]} :
     \E ref \in {EntryRef(entry)} :
       IF ~HasStrUrl(entry)
       THEN /\ \E e \in {enrich_no_url(entry)} : Finish(i, e, FALSE)
            /\ UNCHANGED << sem, waiters, held, issued, pc, exit_code >>
       ELSE IF ref = NoMatch
       THEN /\ IF meta_updatable(entry)
               THEN /\ \E e \in {enrich_unsupported(entry, now_iso(clock))} :
                         Finish(i, e, TRUE)
                    /\ UNCHANGED << pc, exit_code >>
               ELSE Propagate(i, entry)
            /\ UNCHANGED << sem, waiters, held, issued >>
       ELSE /\ \E url \in {RepoUrl(ref)} : Request(i, url, sem)
            /\ tpc' = [tpc EXCEPT ![i] =
                         IF CanAcquire(sem, waiters) THEN "call_branch" ELSE "wait_branch"]
            /\ held' = [held EXCEPT ![i] = IF CanAcquire(sem, waiters) THEN @ + 1 ELSE @]
            /\ UNCHANGED << data, completed, clock, pc, exit_code >>
  /\ UNCHANGED << disk, token, concurrency, input, branch, bresp, tresp, remaining, warned >>
  /\ UNCHANGED << run, call, ret >>

\* the task at the head of the semaphore's queue gets a permit and sends its request
Wake(i) ==
  /\ pc = "gather"
  /\ waiters # <<>>
  /\ Head(waiters) = i
  /\ sem > 0
  /\ tpc[i] \in {"wait_branch", "wait_tree"}
  /\ sem' = sem - 1
  /\ waiters' = Tail(waiters)
  /\ held' = [held EXCEPT ![i] = @ + 1]
  /\ \E ref \in {EntryRef(data[i])} :
       IF tpc[i] = "wait_branch"
       THEN /\ tpc' = [tpc EXCEPT ![i] = "call_branch"]
            /\ \E url \in {RepoUrl(ref)} : issued' = [issued EXCEPT ![i] = Append(@, url)]
       ELSE /\ tpc' = [tpc EXCEPT ![i] = "call_tree"]
            /\ \E url \in {TreeUrl(ref, branch[i].s)} :
                 issued' = [issued EXCEPT ![i] = Append(@, url)]
  /\ UNCHANGED << pc, disk, token, concurrency, input, data, branch, bresp, tresp,
                  completed, clock, remaining, warned, exit_code >>
  /\ UNCHANGED << run, call, ret >>

\* the repository request of task i completes with resp: the permit is released;
\* on success the task goes on to the tree request, otherwise the except block runs
BranchReturn(i, resp) ==
  /\ pc = "gather"
  /\ tpc[i] = "call_branch"
  /\ bresp' = [bresp EXCEPT ![i] = resp]
  /\ \E ref \in {EntryRef(data[i])} :
     \E r \in {get_default_branch(ref, resp)} :
     \E s \in {sem + Released(~r.ok)} :
     \E h \in {held[i] - Released(~r.ok)} :
       IF r.ok
       THEN /\ branch' = [branch EXCEPT ![i] = Str(r.branch)]
            /\ \E url \in {TreeUrl(ref, r.branch)} : Request(i, url, s)
            /\ tpc' = [tpc EXCEPT ![i] =
                         IF CanAcquire(s, waiters) THEN "call_tree" ELSE "wait_tree"]
            /\ held' = [held EXCEPT ![i] = IF CanAcquire(s, waiters) THEN h + 1 ELSE h]
            /\ UNCHANGED << data, completed, clock, pc, exit_code >>
       ELSE /\ sem' = s
            /\ held' = [held EXCEPT ![i] = h]
            /\ IF Caught(r.type) /\ meta_updatable(data[i])
               THEN /\ \E e \in {enrich_failure(data[i], ref, r.error, now_iso(clock))} :
                         Finish(i, e, TRUE)
                    /\ UNCHANGED << pc, exit_code >>
               ELSE Propagate(i, data[i])
            /\ UNCHANGED << branch, waiters, issued >>
  /\ UNCHANGED << disk, token, concurrency, input, tresp, remaining, warned >>
  /\ UNCHANGED << run, call, ret >>

\* the tree request of task i completes with resp: the permit is released, then
\* the record is merged with the detector's result or with the error
TreeReturn(i, resp) ==
  /\ pc = "gather"
  /\ tpc[i] = "call_tree"
  /\ tresp' = [tresp EXCEPT ![i] = resp]
  /\ \E ref \in {EntryRef(data[i])} :
     \E r \in {get_tree_paths(ref, branch[i].s, resp)} :
       /\ sem' = sem + Released(~r.ok)
       /\ held' = [held EXCEPT ![i] = @ - Released(~r.ok)]
       /\ IF r.ok /\ meta_updatable(data[i])
          THEN /\ \E e \in {enrich_success(data[i], ref, branch[i].s, r.paths, r.rate,
                                           now_iso(clock))} :
                    Finish(i, e, TRUE)
               /\ UNCHANGED << pc, exit_code >>
          ELSE IF r.ok
          \* the signals are written, update raises AttributeError inside the try
          \* block and raises it again inside the except block
          THEN \E e \in {merge_signals(data[i], detect_build_systems(r.paths).booleans)} :
                 Propagate(i, e)
          ELSE IF Caught(r.type) /\ meta_updatable(data[i])
          THEN /\ \E e \in {enrich_failure(data[i], ref, r.error, now_iso(clock))} :
                    Finish(i, e, TRUE)
               /\ UNCHANGED << pc, exit_code >>
          ELSE Propagate(i, data[i])
  /\ UNCHANGED << disk, token, concurrency, input, waiters, branch, issued, bresp,
                  remaining, warned >>
  /\ UNCHANGED << run, call, ret >>

\* gather returns once every task has returned; yaml.safe_dump rewrites the file
Write ==
  /\ pc = "gather"
  /\ \A i \in Tasks : tpc[i] = "done"
  /\ LET slot    == gather(Len(data), completed)
         updated == [i \in Tasks |-> data[slot[i]]]
     IN  disk' = [kind |-> "list", items |-> updated]
  /\ pc' = "done"
  /\ exit_code' = 0
  /\ UNCHANGED << token, concurrency, input, data, sem, waiters, tpc, held, branch,
                  issued, bresp, tresp, completed, clock, remaining, warned >>
  /\ UNCHANGED << run, call, ret >>

Next ==
  \/ MainMissing
  \/ LoadFail
  \/ LoadOk
  \/ \E resp \in RateResponses : ProbeReturn(resp)
  \/ Launch
  \/ \E i \in Tasks : TaskStart(i)
  \/ \E i \in Tasks : Wake(i)
  \/ \E i \in Tasks : \E resp \in BranchResponses : BranchReturn(i, resp)
  \/ \E i \in Tasks : \E resp \in TreeResponses : TreeReturn(i, resp)
  \/ Write

Spec == Init /\ [][Next]_vars

\* the event loop keeps running and every request eventually completes
LiveSpec == Spec /\ WF_vars(Next)

(* ------------------------- the program run again ----------------------- *)

\* the program has ended and is started again on the file as it now is, with
\* the same credential and ceiling; the clock has moved on
Rerun ==
  /\ pc \in {"done", "exit", "crashed"}
  /\ run < MaxRuns
  /\ run' = run + 1
  /\ pc' = "main"
  /\ input' = <<>>
  /\ data' = <<>>
  /\ sem' = 0
  /\ waiters' = <<>>
  /\ tpc' = <<>>
  /\ held' = (0 :> 0)
  /\ branch' = <<>>
  /\ issued' = (0 :> <<>>)
  /\ bresp' = <<>>
  /\ tresp' = <<>>
  /\ completed' = <<>>
  /\ remaining' = None
  /\ warned' = FALSE
  /\ exit_code' = -1
  /\ UNCHANGED << disk, token, concurrency, clock, call, ret >>

\* files a user keeps and runs the program on with a ceiling of one request
RunsDocuments ==
  {[kind |-> "yaml_error"]}
    \cup {[kind |-> "list", items |-> l] : l \in {<<E_plain>>, <<E_prior>>, <<E_plain, E_nullmeta>>}}

RunsInit ==
  /\ pc = "main"
  /\ disk \in RunsDocuments \cup {Missing}
  /\ token \in BOOLEAN
  /\ concurrency = 1
  /\ input = <<>>
  /\ data = <<>>
  /\ sem = 0
  /\ waiters = <<>>
  /\ tpc = <<>>
  /\ held = (0 :> 0)
  /\ branch = <<>>
  /\ issued = (0 :> <<>>)
  /\ bresp = <<>>
  /\ tresp = <<>>
  /\ completed = <<>>
  /\ clock = 1
  /\ remaining = None
  /\ warned = FALSE
  /\ exit_code = -1
  /\ run = 1
  /\ call = None
  /\ ret = None

RunsNext == Next \/ Rerun

RunsSpec == RunsInit /\ [][RunsNext]_vars

(* ---------------- parse_repo and detect_build_systems called ----------- *)

\* paths a repository tree may hold
PathUniverse ==
  { <<"g", "o", ".", "m", "o", "d">>, <<".", "g", "i", "t", "h", "u", "b", "/", "w", "o", "r", "k", "f", "l", "o", "w", "s", "/", "c", "i", ".", "y", "m", "l">>, <<"R", "E", "A", "D", "M", "E", ".", "m", "d">>,
    <<"M", "a", "k", "e", "f", "i", "l", "e">>, <<"M", "A", "K", "E", "F", "I", "L", "E">>, <<"s", "r", "c", "/", "m", "a", "k", "e", "f", "i", "l", "e">>, <<"s", "r", "c", "/", "M", "A", "K", "E", "F", "I", "L", "E">>, <<"g", "n", "u", "-", "m", "a", "k", "e", "f", "i", "l", "e">>,
    <<"W", "O", "R", "K", "S", "P", "A", "C", "E">>, <<"p", "k", "g", "/", "B", "U", "I", "L", "D", ".", "b", "a", "z", "e", "l">>, <<"t", "o", "o", "l", "s", "/", "B", "U", "I", "L", "D">>, <<"d", "e", "f", "s", ".", "b", "z", "l">>, <<"d", "o", "c", "s", "/", "R", "E", "B", "U", "I", "L", "D">>,
    <<".", "d", "r", "o", "n", "e", ".", "y", "m", "l">>, <<".", "c", "i", "r", "c", "l", "e", "c", "i", "/", "c", "o", "n", "f", "i", "g", ".", "y", "m", "l">>, <<".", "g", "i", "t", "l", "a", "b", "-", "c", "i", ".", "y", "m", "l">>,
    <<"s", "e", "r", "v", "i", "c", "e", "s", "/", "a", "p", "i", "/", "D", "o", "c", "k", "e", "r", "f", "i", "l", "e">> }

PathSets == {P \in SUBSET PathUniverse : Cardinality(P) <= MaxPaths}

Schemes == { <<"h", "t", "t", "p", ":", "/", "/">>, <<"h", "t", "t", "p", "s", ":", "/", "/">>, <<"f", "t", "p", ":", "/", "/">> }

Hosts == { <<"g", "i", "t", "h", "u", "b", ".", "c", "o", "m">>, <<"w", "w", "w", ".", "g", "i", "t", "h", "u", "b", ".", "c", "o", "m">>, <<"g", "i", "t", "l", "a", "b", ".", "c", "o", "m">>, <<"e", "x", "a", "m", "p", "l", "e", ".", "c", "o", "m">> }

Segments == { <<"o">>, <<"r", ".", "g", "i", "t">>, <<"a", "#", "b">>, <<"t", "r", "e", "e">>, <<>> }

SegmentLists == UNION {[1..n -> Segments] : n \in 0..MaxSegments}

\* "/" before each segment
RECURSIVE UrlPath(_, _)
UrlPath(segs, i) ==
  IF i > Len(segs) THEN <<>> ELSE <<"/">> \o segs[i] \o UrlPath(segs, i + 1)

DetectCalls == {[f |-> "detect_build_systems", paths |-> P] : P \in PathSets}

ParseCalls ==
  {[f |-> "parse_repo", scheme |-> sc, host |-> h, segments |-> segs,
    url |-> sc \o h \o UrlPath(segs, 1)] :
     sc \in Schemes, h \in Hosts, segs \in SegmentLists}

PureInit ==
  /\ pc = "call"
  /\ call \in DetectCalls \cup ParseCalls
  /\ ret = None
  /\ disk = Missing
  /\ token = FALSE
  /\ concurrency = 0
  /\ input = <<>>
  /\ data = <<>>
  /\ sem = 0
  /\ waiters = <<>>
  /\ tpc = <<>>
  /\ held = (0 :> 0)
  /\ branch = <<>>
  /\ issued = (0 :> <<>>)
  /\ bresp = <<>>
  /\ tresp = <<>>
  /\ completed = <<>>
  /\ clock = 1
  /\ remaining = None
  /\ warned = FALSE
  /\ exit_code = -1
  /\ run = 1

Detect ==
  /\ pc = "call"
  /\ call.f = "detect_build_systems"
  /\ ret' = detect_build_systems(call.paths)
  /\ pc' = "returned"
  /\ UNCHANGED << disk, token, concurrency, input, data, sem, waiters, tpc, held,
                  branch, issued, bresp, tresp, completed, clock, remaining, warned,
                  exit_code, run, call >>

Parse ==
  /\ pc = "call"
  /\ call.f = "parse_repo"
  /\ ret' = parse_repo(call.url)
  /\ pc' = "returned"
  /\ UNCHANGED << disk, token, concurrency, input, data, sem, waiters, tpc, held,
                  branch, issued, bresp, tresp, completed, clock, remaining, warned,
                  exit_code, run, call >>

PureNext == Detect \/ Parse

PureSpec == PureInit /\ [][PureNext]_vars


(* ============================ properties =============================== *)

TypeOK ==
  /\ pc \in {"main", "exit", "probe_wait", "probe_call", "launch", "gather", "done", "crashed",
             "call", "returned"}
  /\ sem \in Int
  /\ exit_code \in {-1, 0, 1, 2}
  /\ run \in 1..MaxRuns

SignalKeySet == {SignalKeys[i] : i \in 1..Len(SignalKeys)}

\* all 14 signal keys are in the record, each true or false
FullSignals(e) == \A k \in SignalKeySet : k \in DOMAIN e /\ e[k] \in {Bool(TRUE), Bool(FALSE)}

\* the client exists
ClientUp == pc \in {"probe_wait", "probe_call", "launch", "gather", "done"}

\* the response is an HTTP status >= 400 (the spec's ApiError)
IsApiError(resp) == resp # None /\ resp.kind = "json" /\ resp.status >= 400

IsTimeout(resp) == resp # None /\ resp.kind = "timeout"

IsSuccess(resp) == resp # None /\ resp.kind = "json" /\ resp.status < 400

\* the response made the call raise
IsFailure(resp) == resp # None /\ ~IsSuccess(resp)

\* the url of the record is a string that parses to a reference
Resolvable(e) == EntryRef(e) # NoMatch

\* the url of the record is a string that does not parse
Unsupported(e) == HasStrUrl(e) /\ EntryRef(e) = NoMatch

OldMeta(e) == IF "build_metadata" \in DOMAIN e THEN e["build_metadata"].m ELSE EmptyDict

Meta(e) == e["build_metadata"].m

\* every top-level key of old other than those of the set keys is in new, unchanged
KeepsKeys(old, new, keys) ==
  \A k \in DOMAIN old \ keys : k \in DOMAIN new /\ new[k] = old[k]

\* every key of the old build_metadata other than those of the set keys is kept
KeepsMeta(old, new, keys) ==
  \A k \in DOMAIN OldMeta(old) \ keys : k \in DOMAIN Meta(new) /\ Meta(new)[k] = OldMeta(old)[k]

\* C1: at most `concurrency` HTTP GET calls are in flight at any time, counting the
\* repository and tree calls of every record and the pre-flight rate-limit call.
C1_InFlightAtMostCeiling == Cardinality(InFlight) <= concurrency

\* the ceiling is reached while another task queues for a permit
C1_Witness ==
  /\ concurrency >= 1
  /\ Cardinality(InFlight) = concurrency
  /\ waiters # <<>>

\* C8: every call gives its permit back whatever its outcome: free permits plus
\* calls in flight is always the ceiling, and all permits are free when the batch
\* has completed.
C8_PermitsConserved ==
  ClientUp =>
    /\ sem + Cardinality(InFlight) = concurrency
    /\ \A i \in DOMAIN held : held[i] = IF i \in InFlight THEN 1 ELSE 0
    /\ pc = "done" => sem = concurrency

\* a batch completed in which one call failed with an HTTP error and one timed out
C8_Witness ==
  /\ pc = "done"
  /\ concurrency >= 1
  /\ sem = concurrency
  /\ \E i \in Tasks : IsApiError(tresp[i])
  /\ \E i \in Tasks : IsTimeout(bresp[i])

\* the tasks that have been launched
Launched == DOMAIN tpc

\* task f is the only one with a failed call, it failed with an HTTP status >= 400,
\* and every record of the batch has a resolvable url
OnlyApiFailure(f) ==
  /\ \A i \in Launched : Resolvable(input[i])
  /\ IsApiError(bresp[f]) \/ IsApiError(tresp[f])
  /\ \A j \in Launched \ {f} : ~IsFailure(bresp[j]) /\ ~IsFailure(tresp[j])

\* C2: when exactly one record's call fails with an HTTP status >= 400 and every
\* other call succeeds, the batch is not aborted, no other record is cancelled or
\* left waiting on a permit that cannot come, every other record whose calls have
\* returned carries the 14 signal keys, and so does it in the written output.
C2_FailureIsolated ==
  \A f \in Launched :
    OnlyApiFailure(f) =>
      /\ pc \in {"gather", "done"}
      /\ \A j \in Launched \ {f} :
           /\ tpc[j] \in {"start", "wait_branch", "call_branch", "wait_tree", "call_tree", "done"}
           /\ tpc[j] \in {"wait_branch", "wait_tree"} => (sem > 0 \/ InFlight # {})
           /\ IsSuccess(tresp[j]) => tpc[j] = "done"
           /\ tpc[j] = "done" => FullSignals(data[j])
      /\ pc = "done" =>
           /\ Len(disk.items) = Len(input)
           /\ \A j \in Launched \ {f} : FullSignals(disk.items[j])

\* two records share one permit, the first-launched one failed with an HTTP
\* error and the batch was written
C2_Witness ==
  /\ pc = "done"
  /\ concurrency = 1
  /\ Len(input) = MaxRecords
  /\ \E f \in Launched : OnlyApiFailure(f) /\ IsApiError(bresp[f])

\* C3: the written list has the length of the input list and its i-th record is
\* the record task i enriched from the i-th input record, whatever the order in
\* which the tasks finished.
C3_OutputInInputOrder ==
  pc = "done" =>
    /\ disk.kind = "list"
    /\ Len(disk.items) = Len(input)
    /\ \A i \in 1..Len(input) :
         /\ disk.items[i] = data[i]
         /\ KeepsKeys(input[i], disk.items[i], SignalKeySet \cup {"build_metadata"})

\* two different records finished in the reverse of their input order
C3_Witness ==
  /\ pc = "done"
  /\ Len(input) >= 2
  /\ input[1] # input[2]
  /\ Len(completed) >= 2
  /\ completed[1] = 2
  /\ completed[2] = 1

\* this run wrote some signal key of record i but the record lacks the full set
PartialSignals(i, out) ==
  /\ ~FullSignals(out)
  /\ \E k \in SignalKeySet \cap DOMAIN out : k \notin DOMAIN input[i] \/ out[k] # input[i][k]

\* C4: in the written output every record with a resolvable url has
\* build_metadata.detection_timestamp and has all 14 signal keys or a
\* build_metadata.error; none has signal keys written by this run short of the
\* full set without an error.
C4_SignalsOrError ==
  pc = "done" =>
    \A i \in 1..Len(input) :
      Resolvable(input[i]) =>
        LET out == disk.items[i]
        IN  /\ "build_metadata" \in DOMAIN out
            /\ "detection_timestamp" \in DOMAIN Meta(out)
            /\ FullSignals(out) \/ "error" \in DOMAIN Meta(out)
            /\ ~(PartialSignals(i, out) /\ "error" \notin DOMAIN Meta(out))

\* a batch was written with one record enriched in full and one that failed and
\* still carries the two signal keys it came with
C4_Witness ==
  /\ pc = "done"
  /\ \E i, j \in 1..Len(input) :
       /\ Resolvable(input[i]) /\ FullSignals(disk.items[i])
       /\ input[j] = E_prior /\ ~FullSignals(disk.items[j])
       /\ "error" \in DOMAIN Meta(disk.items[j])

FailureKeys == {"repo_host", "owner", "repo", "error", "detection_timestamp"}

\* the response that made record i fail
FailedResp(i) == IF IsFailure(bresp[i]) THEN bresp[i] ELSE tresp[i]

\* C5: when the repository call or the tree call of a record raises (HTTP status
\* >= 400, timeout, unreadable body), the record's top-level keys are those it
\* had, unchanged, plus build_metadata; build_metadata gets repo_host, owner,
\* repo, error (the exception's message) and detection_timestamp and keeps its
\* other keys.
C5_FailureLeavesRecord ==
  \A i \in Launched :
    (tpc[i] = "done" /\ (IsFailure(bresp[i]) \/ IsFailure(tresp[i]))) =>
      LET old == input[i]
          new == data[i]
          ref == EntryRef(old)
          r   == FailedResp(i)
      IN  /\ DOMAIN new = DOMAIN old \cup {"build_metadata"}
          /\ KeepsKeys(old, new, {"build_metadata"})
          /\ DOMAIN Meta(new) = DOMAIN OldMeta(old) \cup FailureKeys
          /\ KeepsMeta(old, new, FailureKeys)
          /\ Meta(new)["repo_host"] = Str(<<"g", "i", "t", "h", "u", "b">>)
          /\ Meta(new)["owner"] = Str(ref.owner)
          /\ Meta(new)["repo"] = Str(ref.repo)
          /\ DOMAIN Meta(new)["error"] = {"s"}
          /\ IsTimeout(r) => Meta(new)["error"] = Str(<<>>)
          /\ IsApiError(r) =>
               StartsWith(Meta(new)["error"].s,
                          <<"H", "T", "T", "P", " ">> \o Decimal(r.status) \o <<" ", "f", "o", "r", " ", "h", "t", "t", "p", "s", ":", "/", "/", "a", "p", "i", ".", "g", "i", "t", "h", "u", "b", ".", "c", "o", "m", "/", "r", "e", "p", "o", "s", "/">>)
          /\ DOMAIN Meta(new)["detection_timestamp"] = {"s"}

\* a record that came with signal keys failed on an HTTP error of its tree call
\* and another failed on a timeout of its repository call
C5_Witness ==
  \E i, j \in Launched :
    /\ tpc[i] = "done" /\ input[i] = E_prior /\ IsApiError(tresp[i])
    /\ tpc[j] = "done" /\ IsTimeout(bresp[j])

UnsupportedKeys == {"repo_host", "note", "detection_timestamp"}

\* C6: a record whose url is a string that does not parse to a reference never
\* requests a permit or a URL; once enriched its top-level keys are those it had,
\* unchanged, plus build_metadata (so no signal key is added), and build_metadata
\* has repo_host = "unknown" and keeps the other keys it had.
C6_UnsupportedUrl ==
  \A i \in Launched :
    Unsupported(input[i]) =>
      /\ issued[i] = <<>>
      /\ held[i] = 0
      /\ bresp[i] = None /\ tresp[i] = None
      /\ tpc[i] \in {"start", "done"}
      /\ tpc[i] = "start" => data[i] = input[i]
      /\ tpc[i] = "done" =>
           /\ DOMAIN data[i] = DOMAIN input[i] \cup {"build_metadata"}
           /\ KeepsKeys(input[i], data[i], {"build_metadata"})
           /\ DOMAIN Meta(data[i]) = DOMAIN OldMeta(input[i]) \cup UnsupportedKeys
           /\ KeepsMeta(input[i], data[i], UnsupportedKeys)
           /\ Meta(data[i])["repo_host"] = Str(<<"u", "n", "k", "n", "o", "w", "n">>)

\* a record with another host's url has been enriched
C6_Witness ==
  \E i \in Launched : tpc[i] = "done" /\ input[i] = E_other

SuccessKeys ==
  {"repo_host", "owner", "repo", "repo_default_branch", "detection_timestamp",
   "api_rate_limit_remaining", "files_present", "ci_providers", "detected_file_count"}

\* C7: when both calls of a record succeed, its top-level keys are those it had
\* plus the 14 signal keys and build_metadata; the 14 signal keys are true or
\* false whatever they held before; every other top-level key is unchanged; and
\* build_metadata keeps every key it had that the run does not write.
C7_SuccessMerges ==
  \A i \in Launched :
    (tpc[i] = "done" /\ IsSuccess(tresp[i])) =>
      /\ DOMAIN data[i] = DOMAIN input[i] \cup SignalKeySet \cup {"build_metadata"}
      /\ FullSignals(data[i])
      /\ KeepsKeys(input[i], data[i], SignalKeySet \cup {"build_metadata"})
      /\ DOMAIN Meta(data[i]) = DOMAIN OldMeta(input[i]) \cup SuccessKeys
      /\ KeepsMeta(input[i], data[i], SuccessKeys)

\* a record that came with a non-boolean signal value and its own build_metadata
\* key was enriched in full
C7_Witness ==
  \E i \in Launched :
    /\ tpc[i] = "done" /\ IsSuccess(tresp[i]) /\ input[i] = E_prior
    /\ data[i]["gomod"] \in {Bool(TRUE), Bool(FALSE)}
    /\ "custom" \in DOMAIN Meta(data[i])

\* the branch the repository response of task i names, "main" when it names none
ReturnedBranch(i) ==
  IF "default_branch" \in DOMAIN bresp[i].body THEN bresp[i].body["default_branch"] ELSE <<"m", "a", "i", "n">>

\* C9: a record's tree call is requested only after its repository call has
\* returned successfully, for the branch that call returned; a failed repository
\* call is followed by no tree call; no task ever holds more than one permit.
C9_SequentialWithinRecord ==
  \A i \in Launched :
    LET ref == EntryRef(input[i])
    IN  /\ held[i] <= 1
        /\ Len(issued[i]) <= 2
        /\ Len(issued[i]) >= 1 =>
             issued[i][1] = <<"h", "t", "t", "p", "s", ":", "/", "/", "a", "p", "i", ".", "g", "i", "t", "h", "u", "b", ".", "c", "o", "m", "/", "r", "e", "p", "o", "s", "/">> \o ref.owner \o <<"/">> \o ref.repo
        /\ (tpc[i] \in {"wait_tree", "call_tree"} \/ Len(issued[i]) = 2 \/ tresp[i] # None) =>
             IsSuccess(bresp[i])
        /\ Len(issued[i]) = 2 =>
             issued[i][2] = <<"h", "t", "t", "p", "s", ":", "/", "/", "a", "p", "i", ".", "g", "i", "t", "h", "u", "b", ".", "c", "o", "m", "/", "r", "e", "p", "o", "s", "/">> \o ref.owner \o <<"/">> \o ref.repo
                              \o <<"/", "g", "i", "t", "/", "t", "r", "e", "e", "s", "/">> \o ReturnedBranch(i) \o <<"?", "r", "e", "c", "u", "r", "s", "i", "v", "e", "=", "1">>
        /\ IsFailure(bresp[i]) => (Len(issued[i]) = 1 /\ tresp[i] = None /\ tpc[i] = "done")

\* a tree call is in flight for a branch other than the fallback
C9_Witness ==
  \E i \in Launched : tpc[i] = "call_tree" /\ branch[i] = Str(<<"d", "e", "v">>) /\ held[i] = 1

\* C10: with a ceiling of at least one permit, once the list is loaded every
\* record's enrichment returns and the output is written.
C10_BatchCompletes ==
  (concurrency >= 1 /\ pc \in {"probe_call", "launch", "gather"})
    ~> (pc = "done" /\ disk.kind = "list" /\ \A i \in Launched : tpc[i] = "done")

\* more records than permits, a failed call, and the batch was written
C10_Witness ==
  /\ pc = "done"
  /\ concurrency = 1
  /\ Len(input) = MaxRecords
  /\ Len(input) > concurrency
  /\ \E i \in Launched : IsFailure(tresp[i])

\* C11: once the input is loaded as a list no failure of a record leaves the
\* batch: no task's exception reaches process_file, a run that ends has either
\* written a list of as many records and exits 0, or exits nonzero because the
\* file is missing or is not parseable as a list.
C11_NoFailureLeavesBatch ==
  /\ pc # "crashed"
  /\ \A i \in DOMAIN tpc : tpc[i] # "raised"
  /\ pc = "done" => /\ exit_code = 0
                    /\ disk.kind = "list"
                    /\ Len(disk.items) = Len(input)
  /\ exit_code \notin {-1, 0} =>
        \/ disk = Missing
        \/ disk.kind \in {"yaml_error", "mapping", "empty_mapping", "null"}


\* what C12 says apart from the threshold: with a token no probe is made and
\* nothing is warned; without one the probe is the only call of main, it has
\* returned before any record's call is issued, and whether or not the warning
\* was printed every record of a finished batch was enriched
ProbeFirst ==
  /\ Len(issued[0]) <= 1
  /\ token => issued[0] = <<>> /\ held[0] = 0 /\ ~warned /\ remaining = None
  /\ (~token /\ pc \in {"launch", "gather", "done"}) =>
        issued[0] = <<RateUrl>> /\ held[0] = 0
  /\ \A i \in DOMAIN issued \ {0} :
        issued[i] # <<>> => pc \in {"gather", "done"} /\ held[0] = 0 /\ 0 \notin Range(waiters)
  /\ pc \in {"main", "probe_wait", "probe_call"} => ~warned
  /\ pc = "done" => /\ DOMAIN tpc = 1..Len(input)
                    /\ \A i \in DOMAIN tpc : tpc[i] = "done"
                    /\ Len(disk.items) = Len(input)

HasIntRemaining(body) ==
  /\ "resources" \in DOMAIN body
  /\ "core" \in DOMAIN body.resources
  /\ "remaining" \in DOMAIN body.resources.core
  /\ DOMAIN body.resources.core.remaining = {"n"}

\* the probe's request fails: timeout, a body that is not JSON, a status of
\* 400 or more, or a body without an integer count
ProbeFails(resp) ==
  \/ resp.kind \in {"timeout", "badjson"}
  \/ resp.kind = "json" /\ resp.status >= 400
  \/ resp.kind = "json" /\ resp.status < 400 /\ ~HasIntRemaining(resp.body)

NotAList(doc) == doc.kind \in {"yaml_error", "mapping", "empty_mapping"}

\* C14: when the input cannot be parsed or is not a list, the step main takes
\* ends the run with a nonzero exit code, before a semaphore exists, a permit
\* is held, a request is issued or a task is created, and the file is as it was.
C14_BadInputEndsBeforeNetwork ==
  [][(pc = "main" /\ disk # Missing /\ NotAList(disk)) =>
       /\ pc' = "exit"
       /\ exit_code' \notin {-1, 0}
       /\ disk' = disk
       /\ sem' = 0
       /\ held' = (0 :> 0)
       /\ issued' = (0 :> <<>>)
       /\ tpc' = <<>>]_vars


(* ------------------ detect_build_systems, called directly -------------- *)

Detected == pc = "returned" /\ call.f = "detect_build_systems"

\* the elements of seq at the positions in keep, in the order of seq
PickInOrder(seq, keep) ==
  [i \in 1..Cardinality(keep) |->
     seq[CHOOSE k \in keep : Cardinality({j \in keep : j <= k}) = i]]

\* the CI providers in the order ci_providers lists them
CiKeys == << "github_actions", "circleci", "gitlab_ci", "drone" >>

\* C15: for every path set detected_file_count is the length of files_present
\* and the number of true signals, files_present holds the names of the true
\* signals in the order of the table, and ci_providers holds exactly the true
\* signals among github_actions, circleci, gitlab_ci, drone, in that order.
C15_CountsAndListsAgree ==
  Detected =>
    LET flags   == ret.booleans
        meta    == ret.meta
        present == {k \in 1..Len(SignalKeys) : flags[SignalKeys[k]]}
        ci      == {k \in 1..Len(CiKeys) : flags[CiKeys[k]]}
    IN  /\ DOMAIN flags = {SignalKeys[k] : k \in 1..Len(SignalKeys)}
        /\ meta.detected_file_count = Len(meta.files_present)
        /\ meta.detected_file_count = Cardinality(present)
        /\ meta.files_present = PickInOrder(SignalNames, present)
        /\ meta.ci_providers = PickInOrder(CiKeys, ci)

\* a tree with a Drone file and a workflow: two providers, drone listed last
C15_Witness ==
  /\ Detected
  /\ call.paths = { <<".", "d", "r", "o", "n", "e", ".", "y", "m", "l">>, <<".", "g", "i", "t", "h", "u", "b", "/", "w", "o", "r", "k", "f", "l", "o", "w", "s", "/", "c", "i", ".", "y", "m", "l">> }
  /\ ret.meta.detected_file_count = 2
  /\ ret.meta.files_present = << <<"D", "r", "o", "n", "e">>, <<"G", "i", "t", "H", "u", "b", " ", "A", "c", "t", "i", "o", "n", "s">> >>
  /\ ret.meta.ci_providers = << "github_actions", "drone" >>

\* C16: detect_build_systems returns a result for every path set; for
\* {go.mod, .github/workflows/ci.yml} gomod and github_actions are true, the
\* other 12 signals false, detected_file_count is 2 and ci_providers is
\* [github_actions]; for the empty set and for {README.md} all 14 signals are
\* false, files_present and ci_providers are empty and detected_file_count is 0.
C16_DetectsOnlyWhatIsPresent ==
  Detected =>
    /\ DOMAIN ret = {"booleans", "meta"}
    /\ Cardinality(DOMAIN ret.booleans) = 14
    /\ \A k \in DOMAIN ret.booleans : ret.booleans[k] \in BOOLEAN
    /\ call.paths = { <<"g", "o", ".", "m", "o", "d">>, <<".", "g", "i", "t", "h", "u", "b", "/", "w", "o", "r", "k", "f", "l", "o", "w", "s", "/", "c", "i", ".", "y", "m", "l">> } =>
          /\ \A k \in DOMAIN ret.booleans :
                ret.booleans[k] <=> k \in {"gomod", "github_actions"}
          /\ ret.meta.detected_file_count = 2
          /\ ret.meta.files_present = << <<"g", "o", ".", "m", "o", "d">>, <<"G", "i", "t", "H", "u", "b", " ", "A", "c", "t", "i", "o", "n", "s">> >>
          /\ ret.meta.ci_providers = << "github_actions" >>
    /\ call.paths \subseteq { <<"R", "E", "A", "D", "M", "E", ".", "m", "d">> } =>
          /\ \A k \in DOMAIN ret.booleans : ~ret.booleans[k]
          /\ ret.meta.detected_file_count = 0
          /\ ret.meta.files_present = <<>>
          /\ ret.meta.ci_providers = <<>>

\* the call for {go.mod, .github/workflows/ci.yml} has returned
C16_Witness ==
  /\ Detected
  /\ call.paths = { <<"g", "o", ".", "m", "o", "d">>, <<".", "g", "i", "t", "h", "u", "b", "/", "w", "o", "r", "k", "f", "l", "o", "w", "s", "/", "c", "i", ".", "y", "m", "l">> }
  /\ ret.booleans.gomod
  /\ ret.booleans.github_actions


\* the last segment of a path
Filename(p) ==
  LET slashes == {i \in 1..Len(p) : p[i] = "/"}
  IN  IF slashes = {} THEN p
      ELSE Drop(p, CHOOSE i \in slashes : \A j \in slashes : j <= i)

\* C17: for every path set the makefile signal is true exactly when some
\* path's filename, at the root or at any depth, equals "makefile" compared
\* without regard to case.
C17_MakefileIffFilename ==
  Detected =>
    (ret.booleans.makefile <=>
       \E p \in call.paths : Lower(Filename(p)) = <<"m", "a", "k", "e", "f", "i", "l", "e">>)

\* C18: for every path set the bazel signal is true exactly when some path,
\* at the root or at any depth, has the filename WORKSPACE, WORKSPACE.bazel,
\* BUILD or BUILD.bazel, or ends in .bzl; a filename that merely ends with
\* those letters does not set it.
C18_BazelIffFilename ==
  Detected =>
    (ret.booleans.bazel <=>
       \E p \in call.paths :
          \/ Filename(p) \in { <<"W", "O", "R", "K", "S", "P", "A", "C", "E">>, <<"W", "O", "R", "K", "S", "P", "A", "C", "E", ".", "b", "a", "z", "e", "l">>, <<"B", "U", "I", "L", "D">>, <<"B", "U", "I", "L", "D", ".", "b", "a", "z", "e", "l">> }
          \/ EndsWith(p, <<".", "b", "z", "l">>))


(* ------------------------ parse_repo, called directly ------------------ *)

Parsed == pc = "returned" /\ call.f = "parse_repo"

\* the url is http(s)://github.com/<owner>/<repo> with further segments or
\* none: owner and repo are not empty and the repo holds no "#" (a segment
\* never holds a "/")
GithubForm(c) ==
  /\ c.scheme \in { <<"h", "t", "t", "p", ":", "/", "/">>, <<"h", "t", "t", "p", "s", ":", "/", "/">> }
  /\ c.host = <<"g", "i", "t", "h", "u", "b", ".", "c", "o", "m">>
  /\ Len(c.segments) >= 2
  /\ c.segments[1] # <<>>
  /\ c.segments[2] # <<>>
  /\ "#" \notin Range(c.segments[2])

\* C19: parse_repo returns the reference {github, owner, repo} for every url
\* http(s)://github.com/<owner>/<repo>, whatever segments follow, and returns
\* no match for every url whose host is not github.com.
C19_ParseRepo ==
  Parsed =>
    /\ GithubForm(call) =>
          ret = [host |-> <<"g", "i", "t", "h", "u", "b">>, owner |-> call.segments[1], repo |-> call.segments[2]]
    /\ call.host # <<"g", "i", "t", "h", "u", "b", ".", "c", "o", "m">> => ret = NoMatch

\* a url with a segment after the repo gives the reference of owner and repo
C19_Witness ==
  /\ Parsed
  /\ call.url = <<"h", "t", "t", "p", "s", ":", "/", "/", "g", "i", "t", "h", "u", "b", ".", "c", "o", "m", "/", "o", "/", "r", ".", "g", "i", "t", "/", "t", "r", "e", "e">>
  /\ ret = [host |-> <<"g", "i", "t", "h", "u", "b">>, owner |-> <<"o">>, repo |-> <<"r", ".", "g", "i", "t">>]


\* C20: after any sequence of runs over the same file a record with a
\* resolvable url that the latest run has finished holds in build_metadata
\* either api_rate_limit_remaining or error, never both: none of error when
\* both calls of the latest run succeeded, none of api_rate_limit_remaining
\* when one of them failed.
C20_ErrorOrRateNotBoth ==
  \A i \in DOMAIN tpc :
    (tpc[i] = "done" /\ Resolvable(input[i])) =>
      LET m       == Meta(data[i])
          succeeded == IsSuccess(bresp[i]) /\ IsSuccess(tresp[i])
      IN  /\ ("error" \in DOMAIN m) # ("api_rate_limit_remaining" \in DOMAIN m)
          /\ succeeded => "error" \notin DOMAIN m
          /\ ~succeeded => "api_rate_limit_remaining" \notin DOMAIN m


\* the record has no url key, or its url is not a string
NoStringUrl(e) == "url" \notin DOMAIN e \/ DOMAIN e["url"] # {"s"}

\* C21: a record that has no url key, or whose url is not a string, is
\* returned unchanged: it has the keys and values it was loaded with (no
\* build_metadata, no detection_timestamp, no signal key added), its task
\* issues no request, holds no permit and never queues for one, and the
\* written file holds the record as it was.
C21_NoUrlUntouched ==
  \A i \in DOMAIN tpc :
    NoStringUrl(input[i]) =>
      /\ tpc[i] \in {"start", "done"}
      /\ data[i] = input[i]
      /\ DOMAIN data[i] \cap (SignalKeySet \cup {"build_metadata"}) =
            DOMAIN input[i] \cap (SignalKeySet \cup {"build_metadata"})
      /\ issued[i] = <<>>
      /\ held[i] = 0
      /\ i \notin Range(waiters)
      /\ bresp[i] = None
      /\ tresp[i] = None
      /\ pc = "done" => disk.items[i] = input[i]

\* a batch is written in which the record with a numeric url came back as it
\* was while the record after it was enriched with two calls
C21_Witness ==
  /\ pc = "done"
  /\ input = <<E_numurl, E_plain>>
  /\ tpc[1] = "done"
  /\ disk.items[1] = E_numurl
  /\ Len(issued[2]) = 2
  /\ "build_metadata" \in DOMAIN disk.items[2]

====
